---- MODULE Spec2Model ----
(***************************************************************************)
(* Model of src/src/app.ts: the Trengo webhook handler (lambdaHandler),    *)
(* its body decoder (JSON.parse over the substituted body with a           *)
(* decodeURIComponent reviver), the field extractor                        *)
(* (parseCustomTicketFields) and the notifier (sendToTrengo).              *)
(*                                                                         *)
(* A JavaScript string is a sequence of one-character strings.  A code     *)
(* point with no printable ASCII form is the atom "U+<n>".                 *)
(***************************************************************************)
EXTENDS Integers, Sequences, FiniteSets, TLC

(***************************************************************************)
(* Bounds of the model.                                                    *)
(***************************************************************************)
\* Greatest number of pieces concatenated into a generated text.
MaxParts == 2

(***************************************************************************)
(* Characters.                                                             *)
(***************************************************************************)
\* Code points 32..126 in order (the grave accent, 96, is written as an atom).
Printable ==
  << " ", "!", "\"", "#", "$", "%", "&", "'", "(", ")", "*", "+", ",", "-", ".", "/",
     "0", "1", "2", "3", "4", "5", "6", "7", "8", "9", ":", ";", "<", "=", ">", "?",
     "@", "A", "B", "C", "D", "E", "F", "G", "H", "I", "J", "K", "L", "M", "N", "O",
     "P", "Q", "R", "S", "T", "U", "V", "W", "X", "Y", "Z", "[", "\\", "]", "^", "_",
     "U+96", "a", "b", "c", "d", "e", "f", "g", "h", "i", "j", "k", "l", "m", "n", "o",
     "p", "q", "r", "s", "t", "u", "v", "w", "x", "y", "z", "{", "|", "}", "~" >>

\* String.fromCodePoint(n) in the representation of the model.
Chr(n) ==
  IF n \in 32..126 THEN Printable[n - 31]
  ELSE IF n = 9 THEN "\t"
  ELSE IF n = 10 THEN "\n"
  ELSE IF n = 12 THEN "\f"
  ELSE IF n = 13 THEN "\r"
  ELSE "U+" \o ToString(n)

\* The hexadecimal digits by value, in lower and in upper case.
HexLower == << "0", "1", "2", "3", "4", "5", "6", "7", "8", "9", "a", "b", "c", "d", "e", "f" >>

HexUpper == << "0", "1", "2", "3", "4", "5", "6", "7", "8", "9", "A", "B", "C", "D", "E", "F" >>

\* Value of a hexadecimal digit, -1 for any other character.
HexVal(c) ==
  IF \E k \in 1..16 : HexLower[k] = c \/ HexUpper[k] = c
  THEN (CHOOSE k \in 1..16 : HexLower[k] = c \/ HexUpper[k] = c) - 1
  ELSE -1

\* Code points U+0000..U+001F, which JSON forbids raw inside a string.
ControlChars == { Chr(n) : n \in 0..31 }

IsControl(c) == c \in ControlChars

\* JSON insignificant whitespace: space, tab, line feed, carriage return.
IsJsonWs(c) == c \in {" ", "\t", "\n", "\r"}

\* The regular expression class \s (the complement of \S).
RegexSpaces ==
  {" ", "\t", "\n", "\f", "\r", Chr(11), Chr(160), Chr(5760), Chr(8232),
   Chr(8233), Chr(8239), Chr(8287), Chr(12288), Chr(65279)}
  \cup { Chr(n) : n \in 8192..8202 }

IsRegexSpace(c) == c \in RegexSpaces

\* Case folding of the "i" flag: A..Z (code points 65..90) to a..z.
ToLower(c) ==
  IF \E n \in 34..59 : Printable[n] = c
  THEN Printable[32 + CHOOSE n \in 34..59 : Printable[n] = c]
  ELSE c

\* The value `undefined`.
Undefined == << "<undefined>" >>

\* String(v): how a template literal prints a value.
ToStr(v) ==
  IF v = Undefined THEN << "u", "n", "d", "e", "f", "i", "n", "e", "d" >> ELSE v

(***************************************************************************)
(* String.prototype.replace with a global single-character pattern.        *)
(***************************************************************************)
RECURSIVE ReplaceAll(_, _, _)
ReplaceAll(s, c, by) ==
  IF s = << >> THEN << >>
  ELSE (IF Head(s) = c THEN by ELSE << Head(s) >>) \o ReplaceAll(Tail(s), c, by)

(***************************************************************************)
(* decodeURIComponent.                                                     *)
(***************************************************************************)
\* The byte whose hexadecimal digits have the values h and l, -1 if either
\* is no digit.
EscapeByte(h, l) == IF h >= 0 /\ l >= 0 THEN 16 * h + l ELSE -1

\* The byte written %XY at position i of s, -1 when there is none.
EscapeAt(s, i) ==
  IF i + 2 <= Len(s) /\ s[i] = "%" THEN EscapeByte(HexVal(s[i + 1]), HexVal(s[i + 2]))
  ELSE -1

\* Number of continuation bytes a UTF-8 lead byte announces, -1 if invalid.
Utf8Extra(b) ==
  IF b < 128 THEN 0
  ELSE IF b \in 194..223 THEN 1
  ELSE IF b \in 224..239 THEN 2
  ELSE IF b \in 240..244 THEN 3
  ELSE -1

\* Payload bits of a UTF-8 lead byte.
Utf8LeadBits(b) ==
  IF b < 128 THEN b
  ELSE IF b < 224 THEN b - 192
  ELSE IF b < 240 THEN b - 224
  ELSE b - 240

\* Code point of the sequence whose lead bits are cp and whose k continuation
\* bytes start at position i of s; -1 when a continuation byte is missing.
\* b is the byte read at position i.
RECURSIVE Utf8Cont(_, _, _, _)
Utf8ContByte(s, i, k, cp, b) ==
  IF b \in 128..191 THEN Utf8Cont(s, i + 3, k - 1, 64 * cp + (b - 128)) ELSE -1

Utf8Cont(s, i, k, cp) ==
  IF k = 0 THEN cp ELSE Utf8ContByte(s, i, k, cp, EscapeAt(s, i))

\* A code point is well encoded in 1 + k bytes: not overlong, no surrogate.
Utf8Valid(k, cp) ==
  /\ cp >= 0
  /\ k = 1 => cp >= 128
  /\ k = 2 => cp >= 2048 /\ cp \notin 55296..57343
  /\ k = 3 => cp \in 65536..1114111

URIError == << "URI malformed" >>

\* decodeURIComponent(s), from position i on, acc being the decoded prefix.
\* [ok |-> FALSE] stands for the URIError thrown.
RECURSIVE DecodeFrom(_, _, _)
\* The sequence of 1 + k bytes at i encodes the code point cp.
DecodeSequence(s, i, acc, k, cp) ==
  IF ~Utf8Valid(k, cp) THEN [ok |-> FALSE, val |-> URIError]
  ELSE DecodeFrom(s, i + 3 * (k + 1), Append(acc, Chr(cp)))

\* The escape at i starts with the byte b, which announces k more bytes.
DecodeLead(s, i, acc, b, k) ==
  IF k < 0 THEN [ok |-> FALSE, val |-> URIError]
  ELSE DecodeSequence(s, i, acc, k, Utf8Cont(s, i + 3, k, Utf8LeadBits(b)))

\* The escape at i starts with the byte b.
DecodeEscape(s, i, acc, b) ==
  IF b < 0 THEN [ok |-> FALSE, val |-> URIError]
  ELSE DecodeLead(s, i, acc, b, Utf8Extra(b))

DecodeFrom(s, i, acc) ==
  IF i > Len(s) THEN [ok |-> TRUE, val |-> acc]
  ELSE IF s[i] # "%" THEN DecodeFrom(s, i + 1, Append(acc, s[i]))
  ELSE DecodeEscape(s, i, acc, EscapeAt(s, i))

decodeURIComponent(s) == DecodeFrom(s, 1, << >>)

(***************************************************************************)
(* JSON.parse of the text the handler builds.  The text is always          *)
(* '{"' + ... + '"}' and its only commas and closing brace are preceded by *)
(* a double quote, so a member value that is not a string literal can      *)
(* never be followed by the ',' or '}' the grammar demands as long as the  *)
(* body has no raw ',', '}', '{' or '[': the value grammar is strings.     *)
(***************************************************************************)
SyntaxError == << "Unexpected token in JSON" >>

\* First position at or after i that holds no insignificant whitespace.
RECURSIVE SkipWs(_, _)
SkipWs(t, i) ==
  IF i <= Len(t) /\ IsJsonWs(t[i]) THEN SkipWs(t, i + 1) ELSE i

\* The code point whose four hexadecimal digits have the values a, b, c, d;
\* -1 if one of them is no digit.
Hex4(a, b, c, d) ==
  IF a >= 0 /\ b >= 0 /\ c >= 0 /\ d >= 0 THEN 4096 * a + 256 * b + 16 * c + d ELSE -1

\* The code point written as four hexadecimal digits at i, -1 if there is none.
Hex4At(t, i) ==
  IF i + 3 <= Len(t)
  THEN Hex4(HexVal(t[i]), HexVal(t[i + 1]), HexVal(t[i + 2]), HexVal(t[i + 3]))
  ELSE -1

\* The character a single-letter escape denotes, "" when it is no escape.
SimpleEscape(e) ==
  IF e \in {"\"", "\\", "/"} THEN e
  ELSE IF e = "b" THEN "U+8"
  ELSE IF e = "f" THEN "\f"
  ELSE IF e = "n" THEN "\n"
  ELSE IF e = "r" THEN "\r"
  ELSE IF e = "t" THEN "\t"
  ELSE ""

\* A string literal that does not end well.
BadString == [ok |-> FALSE, val |-> << >>, next |-> 0]

\* Scans the characters of a string literal from j on (the opening quote has
\* been consumed); next is the position after the closing quote.
RECURSIVE ScanString(_, _, _)
\* \uXXXX at j, cp being the code point its digits give.
ScanUnicode(t, j, acc, cp) ==
  IF cp < 0 THEN BadString ELSE ScanString(t, j + 6, Append(acc, Chr(cp)))

\* A single-letter escape at j, c being the character it denotes.
ScanSimple(t, j, acc, c) ==
  IF c = "" THEN BadString ELSE ScanString(t, j + 2, Append(acc, c))

ScanString(t, j, acc) ==
  IF j > Len(t) THEN BadString
  ELSE IF t[j] = "\"" THEN [ok |-> TRUE, val |-> acc, next |-> j + 1]
  ELSE IF t[j] = "\\" THEN
         IF j + 1 > Len(t) THEN BadString
         ELSE IF t[j + 1] = "u" THEN ScanUnicode(t, j, acc, Hex4At(t, j + 2))
         ELSE ScanSimple(t, j, acc, SimpleEscape(t[j + 1]))
  ELSE IF IsControl(t[j]) THEN BadString
  ELSE ScanString(t, j + 1, Append(acc, t[j]))

\* A string literal starting at position i.
ParseString(t, i) ==
  IF i <= Len(t) /\ t[i] = "\"" THEN ScanString(t, i + 1, << >>) ELSE BadString

\* An object that does not parse.
BadObject == [ok |-> FALSE, members |-> << >>]

\* The members of an object from position i on (a key is expected at i); acc
\* holds the <<key, value>> pairs read so far, in source order.
RECURSIVE ParseMembers(_, _, _)
\* sep is the position of the first token after a member.
AfterMember(t, acc, sep) ==
  IF sep > Len(t) THEN BadObject
  ELSE IF t[sep] = "," THEN ParseMembers(t, SkipWs(t, sep + 1), acc)
  ELSE IF t[sep] = "}" /\ SkipWs(t, sep + 1) > Len(t) THEN [ok |-> TRUE, members |-> acc]
  ELSE BadObject

\* val is the member's value as parsed after the colon.
AfterValue(t, acc, key, val) ==
  IF ~val.ok THEN BadObject
  ELSE AfterMember(t, Append(acc, << key.val, val.val >>), SkipWs(t, val.next))

\* colon is the position of the first token after the key.
AfterKey(t, acc, key, colon) ==
  IF colon > Len(t) \/ t[colon] # ":" THEN BadObject
  ELSE AfterValue(t, acc, key, ParseString(t, SkipWs(t, colon + 1)))

\* key is the member's key as parsed at its position.
MemberKey(t, acc, key) ==
  IF ~key.ok THEN BadObject ELSE AfterKey(t, acc, key, SkipWs(t, key.next))

ParseMembers(t, i, acc) == MemberKey(t, acc, ParseString(t, i))

\* first is the position of the first token after the opening brace.
ObjectBody(t, first) ==
  IF first > Len(t) THEN BadObject
  ELSE IF t[first] = "}" THEN [ok |-> SkipWs(t, first + 1) > Len(t), members |-> << >>]
  ELSE ParseMembers(t, first, << >>)

\* open is the position of the first token of the text.
ObjectAt(t, open) ==
  IF open > Len(t) \/ t[open] # "{" THEN BadObject ELSE ObjectBody(t, SkipWs(t, open + 1))

\* JSON.parse(t) before the reviver runs: the members in source order.
ParseObject(t) == ObjectAt(t, SkipWs(t, 1))

\* The object's own properties: of two members with one key the later wins.
\* A record is the sequence of the surviving <<key, value>> pairs.
RECURSIVE Properties(_)
Properties(members) ==
  IF members = << >> THEN << >>
  ELSE IF \E k \in 2..Len(members) : members[k][1] = members[1][1]
       THEN Properties(Tail(members))
       ELSE << Head(members) >> \o Properties(Tail(members))

\* obj[key]: the property's value, or undefined.
Get(obj, key) ==
  IF \E k \in 1..Len(obj) : obj[k][1] = key
  THEN obj[CHOOSE k \in 1..Len(obj) : obj[k][1] = key][2]
  ELSE Undefined

\* The reviver of the handler applied to every property: the value of a
\* property whose key is the empty string is returned as it is, any other
\* value goes through decodeURIComponent.
Revive(obj) ==
  [k \in 1..Len(obj) |->
     IF obj[k][1] = << >> THEN [ok |-> TRUE, val |-> obj[k][2]]
     ELSE decodeURIComponent(obj[k][2])]

(***************************************************************************)
(* JSON.stringify of a string.                                             *)
(***************************************************************************)
QuoteChar(c) ==
  IF c \in {"\"", "\\"} THEN << "\\", c >>
  ELSE IF c = "\n" THEN << "\\", "n" >>
  ELSE IF c = "\t" THEN << "\\", "t" >>
  ELSE IF c = "\r" THEN << "\\", "r" >>
  ELSE IF c = "\f" THEN << "\\", "f" >>
  ELSE IF c = "U+8" THEN << "\\", "b" >>
  ELSE IF \E n \in 0..31 : c = "U+" \o ToString(n)
       THEN LET n == CHOOSE n \in 0..31 : c = "U+" \o ToString(n)
            IN  << "\\", "u", "0", "0", HexLower[(n \div 16) + 1], HexLower[(n % 16) + 1] >>
  ELSE << c >>

RECURSIVE QuoteChars(_)
QuoteChars(s) == IF s = << >> THEN << >> ELSE QuoteChar(Head(s)) \o QuoteChars(Tail(s))

\* JSON.stringify(s) for a string s.
Quote(s) == << "\"" >> \o QuoteChars(s) \o << "\"" >>

(***************************************************************************)
(* Configuration read from the environment at module load.                 *)
(***************************************************************************)
\* process.env.TRENGO_LINK_FIELD_ID
TRENGO_LINK_FIELD_ID == << "9", "0", "0", "1" >>

(***************************************************************************)
(* parseCustomTicketFields: /^(https:|http:|www\.)\S*/gi and                *)
(* String.prototype.match.                                                 *)
(***************************************************************************)
\* The alternatives of the group, in the order the pattern tries them.
Alternatives == << << "h", "t", "t", "p", "s", ":" >>, << "h", "t", "t", "p", ":" >>, << "w", "w", "w", "." >> >>

\* The pattern without its anchor.
AssertStart_Unanchored(s, p) == TRUE

\* The assertion ^ at position p: without the "m" flag only the start of
\* the input satisfies it.
AssertStart(s, p) == p = 1

\* The literal lit matches s at position p under the "i" flag.
LiteralAt(s, p, lit) ==
  /\ p + Len(lit) - 1 <= Len(s)
  /\ \A k \in 1..Len(lit) : ToLower(s[p + k - 1]) = ToLower(lit[k])

\* Greedy \S*: the position after the run of non-whitespace starting at p.
RECURSIVE NonSpaceRun(_, _)
NonSpaceRun(s, p) ==
  IF p <= Len(s) /\ ~IsRegexSpace(s[p]) THEN NonSpaceRun(s, p + 1) ELSE p

\* The alternatives that match s at position p.
Matching(s, p) == { a \in 1..Len(Alternatives) : LiteralAt(s, p, Alternatives[a]) }

\* The position after the match that takes the first alternative of alts and
\* then the greedy run; 0 when no alternative matches.
MatchEnd(s, p, alts) ==
  IF alts = { } THEN 0
  ELSE NonSpaceRun(s, p + Len(Alternatives[CHOOSE a \in alts : \A b \in alts : a <= b]))

\* The position after a match of the whole pattern starting at p, 0 if the
\* pattern does not match there.
MatchAt(s, p) == IF AssertStart(s, p) THEN MatchEnd(s, p, Matching(s, p)) ELSE 0

\* The matches of s from position from on, ends[p] being MatchAt(s, p).
RECURSIVE Collect(_, _, _)
Collect(s, from, ends) ==
  IF \E p \in from..Len(s) : ends[p] > 0
  THEN LET p == CHOOSE p \in from..Len(s) :
                  ends[p] > 0 /\ \A q \in from..(p - 1) : ends[q] = 0
       IN  << SubSeq(s, p, ends[p] - 1) >> \o Collect(s, ends[p], ends)
  ELSE << >>

\* s.match(regex) with the "g" flag: every match, each search starting where
\* the previous match ended (lastIndex); the empty sequence stands for null.
MatchAll(s) == Collect(s, 1, [p \in 1..Len(s) |-> MatchAt(s, p)])

\* JSON.stringify({custom_field_id: id, value: url}); a property whose value
\* is undefined is left out.
StringifyUpdate(id, url) ==
  << "{" >>
  \o (IF id = Undefined THEN << >>
      ELSE << "\"", "c", "u", "s", "t", "o", "m", "_", "f", "i", "e", "l", "d", "_", "i", "d", "\"", ":" >> \o Quote(id) \o << "," >>)
  \o << "\"", "v", "a", "l", "u", "e", "\"", ":" >> \o Quote(url) \o << "}" >>

\* if (urls?.length) on the result of match.
UpdateFor(urls) ==
  IF Len(urls) > 0 THEN StringifyUpdate(TRENGO_LINK_FIELD_ID, urls[1]) ELSE Undefined

parseCustomTicketFields(message) == UpdateFor(MatchAll(message))

(***************************************************************************)
(* The body decoder of lambdaHandler.                                      *)
(***************************************************************************)
\* An absent or empty body replaced by an empty form.
SubstituteSeparators_Defaulted(b) ==
  IF b = Undefined \/ b = << >>
  THEN ReplaceAll(ReplaceAll(<< "m", "e", "s", "s", "a", "g", "e", "=", "&", "t", "i", "c", "k", "e", "t", "_", "i", "d", "=" >>, "&", << "\"", ",", "\"" >>), "=", << "\"", ":", "\"" >>)
  ELSE ReplaceAll(ReplaceAll(b, "&", << "\"", ",", "\"" >>), "=", << "\"", ":", "\"" >>)

\* event.body?.replace(/&/g, '","').replace(/=/g, '":"'); an absent body
\* short-circuits the chain to undefined, which the concatenation prints.
SubstituteSeparators(b) ==
  IF b = Undefined THEN ToStr(Undefined)
  ELSE ReplaceAll(ReplaceAll(b, "&", << "\"", ",", "\"" >>), "=", << "\"", ":", "\"" >>)

\* The body percent-decoded as a whole before the separators are substituted.
JsonText_DecodedFirst(b) ==
  << "{", "\"" >>
  \o (IF b = Undefined THEN ToStr(Undefined)
      ELSE ReplaceAll(ReplaceAll(decodeURIComponent(b).val, "&", << "\"", ",", "\"" >>), "=", << "\"", ":", "\"" >>))
  \o << "\"", "}" >>

\* The text handed to JSON.parse.
JsonText(b) == << "{", "\"" >> \o SubstituteSeparators(b) \o << "\"", "}" >>

\* The outcome of the reviver: revived[k] is what it gave for props[k].
Revived(props, revived) ==
  IF \E k \in 1..Len(props) : ~revived[k].ok
  THEN [ok |-> FALSE, rec |-> << >>, err |-> URIError]
  ELSE [ok |-> TRUE,
        rec |-> [k \in 1..Len(props) |-> << props[k][1], revived[k].val >>],
        err |-> << >>]

\* The reviver run over the properties of the parsed object.
Internalize(props) == Revived(props, Revive(props))

\* parsed is the outcome of parsing the text.
Parsed(parsed) ==
  IF ~parsed.ok THEN [ok |-> FALSE, rec |-> << >>, err |-> SyntaxError]
  ELSE Internalize(Properties(parsed.members))

\* JSON.parse(text, reviver): [ok |-> TRUE, rec] or the error thrown.
DecodeBody(b) == Parsed(ParseObject(JsonText(b)))

(***************************************************************************)
(* Responses and errors of lambdaHandler.                                  *)
(***************************************************************************)
\* message.match on undefined.
TypeError == << "Cannot read properties of undefined (reading 'match')" >>

\* err instanceof Error
IsError(err) == err \in {SyntaxError, URIError, TypeError}

\* err instanceof Error ? err.message : 'some error happened'
ErrorMessage(err) == IF IsError(err) THEN err ELSE << "some error happened" >>

\* JSON.stringify({message: m})
StringifyMessage(m) == << "{", "\"", "m", "e", "s", "s", "a", "g", "e", "\"", ":" >> \o Quote(m) \o << "}" >>

\* `Ticket's ${ticketId} custom fields set`
TicketMessage(id) == << "T", "i", "c", "k", "e", "t", "'", "s", " " >> \o ToStr(id) \o << " ", "c", "u", "s", "t", "o", "m", " ", "f", "i", "e", "l", "d", "s", " ", "s", "e", "t" >>

CreatedResponse(id) == [statusCode |-> 201, body |-> StringifyMessage(TicketMessage(id))]

ErrorResponse(err) == [statusCode |-> 500, body |-> StringifyMessage(ErrorMessage(err))]

\* No response has been produced yet.
NoResponse == [statusCode |-> 0, body |-> << >>]

\* An extractor that tolerates a missing message.
ExtractThrows_Never(message) == FALSE

\* parseCustomTicketFields(message) throws when message is undefined.
ExtractThrows(message) == message = Undefined

\* The notifier called whatever the extractor returned.
ShouldSend_Always(fields) == TRUE

\* if (customTicketFields): a non-empty string is truthy, undefined is not.
ShouldSend(fields) == fields # Undefined /\ fields # << >>

(***************************************************************************)
(* Inbound events.                                                         *)
(***************************************************************************)
\* Fragments the generated texts are made of: URL prefixes in both cases,
\* plain text, whitespace, percent escapes (valid and invalid), and the raw
\* characters the substitution and JSON give a meaning to.
Pieces ==
  { << "h", "t", "t", "p", "s", ":" >>,
    << "h", "T", "T", "p", ":" >>,
    << "w", "w", "w", "." >>,
    << "W", "W", "W", "." >>,
    << "w", "w", "w" >>,
    << "/", "x" >>,
    << "a" >>,
    << " " >>,
    << "%", "2", "0" >>,
    << "%", "2", "2" >>,
    << "%", "2", "6" >>,
    << "%", "3", "D" >>,
    << "%", "z" >>,
    << "=" >>,
    << "&" >>,
    << "\"" >>,
    << "\\" >>,
    << "\t" >>,
    << "\"", ":", "\"" >>,
    << "%", "C", "3", "%", "A", "9" >> }

RECURSIVE TextsOf(_)
TextsOf(n) ==
  IF n = 0 THEN { << >> }
  ELSE TextsOf(n - 1) \cup { t \o q : t \in TextsOf(n - 1), q \in Pieces }

Texts == TextsOf(MaxParts)

TicketIds == { << "4", "2" >>, << "7" >> }

MessageKey == << "m", "e", "s", "s", "a", "g", "e", "=" >>

TicketKey == << "t", "i", "c", "k", "e", "t", "_", "i", "d", "=" >>

\* Bodies whose raw double quotes close and open JSON strings themselves.
QuotedBodies ==
  { << "m", "e", "s", "s", "a", "g", "e", "\"", ":", "\"", "w", "w", "w", ".", "x", "&", "t", "i", "c", "k", "e", "t", "_", "i", "d", "=", "7" >>,
    << "m", "e", "s", "s", "a", "g", "e", "=", "h", "i", "\"", ",", "\"", "t", "i", "c", "k", "e", "t", "_", "i", "d", "\"", ":", "\"", "7" >> }

\* Bodies of the specification's examples.
ExampleBodies ==
  { << "m", "e", "s", "s", "a", "g", "e", "=", "C", "h", "e", "c", "k", " ", "h", "t", "t", "p", "s", ":", "/", "/", "e", "x", "a", "m", "p", "l", "e", ".", "c", "o", "m", "/", "p", "a", "t", "h", "&", "t", "i", "c", "k", "e", "t", "_", "i", "d", "=", "4", "2" >>,
    << "m", "e", "s", "s", "a", "g", "e", "=", "H", "e", "l", "l", "o", " ", "t", "h", "e", "r", "e", "&", "t", "i", "c", "k", "e", "t", "_", "i", "d", "=", "7" >>,
    << "m", "e", "s", "s", "a", "g", "e", "=", "w", "w", "w", ".", "e", "x", "a", "m", "p", "l", "e", ".", "c", "o", "m", "/", "x", "&", "t", "i", "c", "k", "e", "t", "_", "i", "d", "=", "4", "2" >>,
    << "m", "e", "s", "s", "a", "g", "e", "=", "h", "t", "t", "p", "s", ":", "/", "/", "a", ".", "b", "/", "c", " ", "h", "t", "t", "p", ":", "/", "/", "d", ".", "e", "&", "t", "i", "c", "k", "e", "t", "_", "i", "d", "=", "7" >>,
    << "m", "e", "s", "s", "a", "g", "e", "=", "a", "%", "3", "D", "b", "&", "t", "i", "c", "k", "e", "t", "_", "i", "d", "=", "4", "2" >>,
    << "m", "e", "s", "s", "a", "g", "e", "=", "a", "%", "2", "6", "b", "&", "t", "i", "c", "k", "e", "t", "_", "i", "d", "=", "4", "2" >>,
    << "m", "e", "s", "s", "a", "g", "e", "=", "a", "%", "2", "2", "b", "&", "t", "i", "c", "k", "e", "t", "_", "i", "d", "=", "4", "2" >> }

\* event.body: absent (undefined or null), empty, or a string.
Bodies ==
  { Undefined, << >> }
  \cup ExampleBodies
  \cup QuotedBodies
  \cup { MessageKey \o t \o << "&" >> \o TicketKey \o i : t \in Texts, i \in TicketIds }
  \cup { TicketKey \o i \o << "&" >> \o MessageKey \o t : t \in Texts, i \in TicketIds }
  \cup { TicketKey \o i : i \in TicketIds }
  \cup Texts

\* Status codes the ticketing API may answer with.
HttpStatuses == { 200, 404, 500 }

(***************************************************************************)
(* State.                                                                  *)
(***************************************************************************)
VARIABLES
  body,                \* event.body of the invocation
  pc,                  \* "start", "awaitFetch" (suspended in sendToTrengo), "done"
  message,             \* body.message
  ticketId,            \* body.ticket_id
  customTicketFields,  \* result of parseCustomTicketFields
  requests,            \* the POSTs issued, in order
  fetch,               \* "none", "pending", "resolved", "rejected"
  httpStatus,          \* status of the resolved fetch, 0 otherwise
  logs,                \* messages passed to log.error, in order
  response             \* the value lambdaHandler returns

vars == << body, pc, message, ticketId, customTicketFields, requests, fetch,
           httpStatus, logs, response >>

Init ==
  /\ body \in Bodies
  /\ pc = "start"
  /\ message = Undefined
  /\ ticketId = Undefined
  /\ customTicketFields = Undefined
  /\ requests = << >>
  /\ fetch = "none"
  /\ httpStatus = 0
  /\ logs = << >>
  /\ response = NoResponse

(***************************************************************************)
(* lambdaHandler up to its first suspension or its return.                 *)
(***************************************************************************)
\* The catch block of lambdaHandler.
HandlerCatch(err) ==
  /\ logs' = Append(logs, "Error")
  /\ response' = ErrorResponse(err)
  /\ pc' = "done"

\* The POST issued and the response built without waiting for it.
SendAndAwait_NotAwaited(id, fields) ==
  /\ requests' = Append(requests, [ticket |-> ToStr(id), payload |-> fields])
  /\ fetch' = "pending"
  /\ response' = CreatedResponse(id)
  /\ pc' = "done"
  /\ UNCHANGED logs

\* await sendToTrengo(customTicketFields, ticketId) up to its suspension:
\* the POST is issued and the handler waits for it to settle.
SendAndAwait(id, fields) ==
  /\ requests' = Append(requests, [ticket |-> ToStr(id), payload |-> fields])
  /\ fetch' = "pending"
  /\ pc' = "awaitFetch"
  /\ UNCHANGED << logs, response >>

\* Lines 79-89: the notifier is called if there is an update, then the
\* response is built.
Notify(id, fields) ==
  IF ShouldSend(fields) THEN SendAndAwait(id, fields)
  ELSE /\ response' = CreatedResponse(id)
       /\ pc' = "done"
       /\ UNCHANGED << requests, fetch, logs >>

\* Lines 74-77: the fields of the decoded body and the extraction.
Extract(msg, id) ==
  /\ message' = msg
  /\ ticketId' = id
  /\ IF ExtractThrows(msg)
     THEN /\ HandlerCatch(TypeError)
          /\ UNCHANGED << customTicketFields, requests, fetch >>
     ELSE /\ customTicketFields' = parseCustomTicketFields(msg)
          /\ Notify(id, customTicketFields')

\* Lines 71-73 have run, decoded being their outcome.
Decoded(decoded) ==
  IF ~decoded.ok
  THEN /\ HandlerCatch(decoded.err)
       /\ UNCHANGED << message, ticketId, customTicketFields, requests, fetch >>
  ELSE Extract(Get(decoded.rec, << "m", "e", "s", "s", "a", "g", "e" >>), Get(decoded.rec, << "t", "i", "c", "k", "e", "t", "_", "i", "d" >>))

lambdaHandler ==
  /\ pc = "start"
  /\ Decoded(DecodeBody(body))
  /\ UNCHANGED << body, httpStatus >>

(***************************************************************************)
(* Completion of the awaited fetch: sendToTrengo returns and lambdaHandler *)
(* runs on to its return.                                                  *)
(***************************************************************************)
\* fetch resolves with a response of any status; node-fetch rejects only on
\* transport errors, and sendToTrengo does not look at the response.
FetchResolves(status) ==
  /\ pc = "awaitFetch"
  /\ fetch = "pending"
  /\ fetch' = "resolved"
  /\ httpStatus' = status
  /\ response' = CreatedResponse(ticketId)
  /\ pc' = "done"
  /\ UNCHANGED << body, message, ticketId, customTicketFields, requests, logs >>

\* A rejection that escapes sendToTrengo and reaches the handler's catch.
FetchRejects_Uncaught ==
  /\ pc = "awaitFetch"
  /\ fetch = "pending"
  /\ fetch' = "rejected"
  /\ HandlerCatch(<< "request to app.trengo.com failed" >>)
  /\ UNCHANGED << body, message, ticketId, customTicketFields, requests, httpStatus >>

\* fetch rejects: the catch block of sendToTrengo logs and returns.
FetchRejects ==
  /\ pc = "awaitFetch"
  /\ fetch = "pending"
  /\ fetch' = "rejected"
  /\ logs' = Append(logs, "Error when sending to Trengo")
  /\ response' = CreatedResponse(ticketId)
  /\ pc' = "done"
  /\ UNCHANGED << body, message, ticketId, customTicketFields, requests, httpStatus >>

Next ==
  \/ lambdaHandler
  \/ \E status \in HttpStatuses : FetchResolves(status)
  \/ FetchRejects

Spec == Init /\ [][Next]_vars

(***************************************************************************)
(* Reference reading of a form-encoded body: split on '&', then on '='.    *)
(***************************************************************************)
\* Number of occurrences of the character c in s.
RECURSIVE CountOf(_, _)
CountOf(s, c) ==
  IF s = << >> THEN 0 ELSE (IF Head(s) = c THEN 1 ELSE 0) + CountOf(Tail(s), c)

\* Position of the first c in s, Len(s) + 1 when there is none.
FirstIndex(s, c) ==
  IF \E k \in 1..Len(s) : s[k] = c
  THEN CHOOSE k \in 1..Len(s) : s[k] = c /\ \A j \in 1..(k - 1) : s[j] # c
  ELSE Len(s) + 1

\* The pieces of s between the occurrences of c.
RECURSIVE SplitOn(_, _)
SplitOn(s, c) ==
  IF FirstIndex(s, c) > Len(s) THEN << s >>
  ELSE << SubSeq(s, 1, FirstIndex(s, c) - 1) >>
       \o SplitOn(SubSeq(s, FirstIndex(s, c) + 1, Len(s)), c)

Segments(b) == SplitOn(b, "&")

KeyOf(seg) == SubSeq(seg, 1, FirstIndex(seg, "=") - 1)

ValueOf(seg) == SubSeq(seg, FirstIndex(seg, "=") + 1, Len(seg))

\* Characters a form encoder leaves as they are.
FormSafeChars ==
  { Chr(n) : n \in (48..57) \cup (65..90) \cup (97..122) }
  \cup { "-", "_", ".", "~", "!", "*", "'", "(", ")", "+" }

\* A percent-encoded value: safe characters and valid escapes only.
IsEncoded(v) ==
  /\ \A k \in 1..Len(v) : v[k] \in FormSafeChars \cup { "%" }
  /\ decodeURIComponent(v).ok

\* key1=value1&key2=value2&... with non-empty keys and percent-encoded values.
WellFormedBody(b) ==
  /\ b # Undefined
  /\ \A k \in 1..Len(Segments(b)) :
       LET seg == Segments(b)[k]
       IN  /\ CountOf(seg, "=") = 1
           /\ KeyOf(seg) # << >>
           /\ \A j \in 1..Len(KeyOf(seg)) : KeyOf(seg)[j] \in FormSafeChars
           /\ IsEncoded(ValueOf(seg))

\* The value the body gives a key: that of the last segment with the key.
LastValue(b, key) ==
  LET segs == Segments(b)
      k == CHOOSE k \in 1..Len(segs) :
             /\ KeyOf(segs[k]) = key
             /\ \A j \in (k + 1)..Len(segs) : KeyOf(segs[j]) # key
  IN  ValueOf(segs[k])

\* The record rec maps every key of b to the percent-decoded form of its value.
MapsDecoded(b, rec) ==
  \A k \in 1..Len(Segments(b)) :
    LET key == KeyOf(Segments(b)[k])
    IN  Get(rec, key) = decodeURIComponent(LastValue(b, key)).val

\* Not of the form key=value&key=value: absent, or a segment that does not
\* hold exactly one '='.
MisshapenBody(b) ==
  \/ b = Undefined
  \/ \E k \in 1..Len(Segments(b)) : CountOf(Segments(b)[k], "=") # 1

\* Some value of b holds a '"', '&' or '=' once it is percent-decoded.
DecodesToSpecial(b) ==
  /\ b # Undefined
  /\ \E k \in 1..Len(Segments(b)) :
       LET seg == Segments(b)[k]
           dec == decodeURIComponent(ValueOf(seg))
       IN  /\ CountOf(seg, "=") = 1
           /\ dec.ok
           /\ \E j \in 1..Len(dec.val) : dec.val[j] \in { "\"", "&", "=" }

\* Texts an error response may carry.
ErrorTexts == { SyntaxError, URIError, TypeError, << "some error happened" >> }

\* Number of entries of the log equal to text.
RECURSIVE Logged(_, _)
Logged(l, text) ==
  IF l = << >> THEN 0 ELSE (IF Head(l) = text THEN 1 ELSE 0) + Logged(Tail(l), text)

\* The outbound call failed: rejected, or answered outside 200..299.
OutboundFailed == fetch = "rejected" \/ (fetch = "resolved" /\ httpStatus \notin 200..299)

(***************************************************************************)
(* Properties.                                                             *)
(***************************************************************************)

\* C1: when the outbound POST rejects with a transport error, the handler
\* still responds 201 with the "Ticket's {ticketId} custom fields set" body,
\* never 500.
C1_ContainmentBoundary ==
  fetch = "rejected" =>
    /\ pc = "done"
    /\ response.statusCode = 201
    /\ response.body = << "{", "\"", "m", "e", "s", "s", "a", "g", "e", "\"", ":" >> \o Quote(<< "T", "i", "c", "k", "e", "t", "'", "s", " " >> \o ToStr(ticketId) \o << " ", "c", "u", "s", "t", "o", "m", " ", "f", "i", "e", "l", "d", "s", " ", "s", "e", "t" >>) \o << "}" >>

C1_Witness ==
  /\ pc = "done"
  /\ fetch = "rejected"
  /\ Len(requests) = 1
  /\ response.statusCode = 201

CheckBody == << "m", "e", "s", "s", "a", "g", "e", "=", "C", "h", "e", "c", "k", " ", "h", "t", "t", "p", "s", ":", "/", "/", "e", "x", "a", "m", "p", "l", "e", ".", "c", "o", "m", "/", "p", "a", "t", "h", "&", "t", "i", "c", "k", "e", "t", "_", "i", "d", "=", "4", "2" >>

HelloBody == << "m", "e", "s", "s", "a", "g", "e", "=", "H", "e", "l", "l", "o", " ", "t", "h", "e", "r", "e", "&", "t", "i", "c", "k", "e", "t", "_", "i", "d", "=", "7" >>

\* C3: an invocation issues exactly one POST when the extractor returned an
\* update and none otherwise; none for `Hello there`, none on a path that
\* ends in 500, never more than one.
C3_OnePostPerExtraction ==
  /\ Len(requests) <= 1
  /\ pc # "start" => Len(requests) = (IF customTicketFields # Undefined THEN 1 ELSE 0)
  /\ response.statusCode = 500 => Len(requests) = 0
  /\ body = HelloBody /\ pc = "done" => Len(requests) = 0 /\ response.statusCode = 201

C3_Witness ==
  /\ pc = "done"
  /\ customTicketFields # Undefined
  /\ Len(requests) = 1

\* C4: an absent or empty body ends in status 500 with a JSON body whose
\* message is a non-empty error text.
C4_AbsentBody ==
  (body = Undefined \/ body = << >>) /\ pc = "done" =>
    /\ response.statusCode = 500
    /\ \E e \in ErrorTexts :
         /\ Len(e) > 0
         /\ response.body = << "{", "\"", "m", "e", "s", "s", "a", "g", "e", "\"", ":" >> \o Quote(e) \o << "}" >>

C4_Witness ==
  /\ pc = "done"
  /\ body = Undefined
  /\ response.statusCode = 500

\* The message starts, letter case aside, with one of the three prefixes.
HasUrlPrefix(m) ==
  \E n \in { 4, 5, 6 } :
    /\ Len(m) >= n
    /\ [k \in 1..n |-> ToLower(m[k])] \in
         { << "h", "t", "t", "p", "s", ":" >>, << "h", "t", "t", "p", ":" >>, << "w", "w", "w", "." >> }

\* The longest prefix of the message that holds no whitespace.
FirstToken(m) ==
  LET k == CHOOSE k \in 0..Len(m) :
             /\ \A j \in 1..k : ~IsRegexSpace(m[j])
             /\ k = Len(m) \/ IsRegexSpace(m[k + 1])
  IN  SubSeq(m, 1, k)

\* C5: parseCustomTicketFields returns an update exactly when the message
\* starts, case-insensitively, with https:, http: or www.; the value is the
\* prefix with the run of non-whitespace after it, the field id is the
\* configured one, and later URL-like tokens never change the result.
C5_LeadingUrlOnly ==
  pc # "start" /\ message # Undefined =>
    /\ customTicketFields # Undefined <=> HasUrlPrefix(message)
    /\ HasUrlPrefix(message) =>
         customTicketFields =
           << "{", "\"", "c", "u", "s", "t", "o", "m", "_", "f", "i", "e", "l", "d", "_", "i", "d", "\"", ":" >> \o Quote(TRENGO_LINK_FIELD_ID)
           \o << ",", "\"", "v", "a", "l", "u", "e", "\"", ":" >> \o Quote(FirstToken(message)) \o << "}" >>

C5_Witness ==
  /\ pc = "done"
  /\ message = << "h", "t", "t", "p", "s", ":", "/", "/", "a", ".", "b", "/", "c", " ", "h", "t", "t", "p", ":", "/", "/", "d", ".", "e" >>
  /\ customTicketFields =
       << "{", "\"", "c", "u", "s", "t", "o", "m", "_", "f", "i", "e", "l", "d", "_", "i", "d", "\"", ":", "\"", "9", "0", "0", "1", "\"", ",", "\"", "v", "a", "l", "u", "e", "\"", ":", "\"", "h", "t", "t", "p", "s", ":", "/", "/", "a", ".", "b", "/", "c", "\"", "}" >>

\* C6: an invocation whose outbound call completes ends in 500 with an error
\* message exactly when decoding or extraction threw (a body without a
\* `message` key included), and in 201 with "Ticket's {ticket_id} custom
\* fields set" on every other path.
C6_TwoOutcomes ==
  pc = "done" =>
    LET decoded == DecodeBody(body)
        threw == ~decoded.ok \/ Get(decoded.rec, << "m", "e", "s", "s", "a", "g", "e" >>) = Undefined
    IN  IF threw
        THEN /\ response.statusCode = 500
             /\ \E e \in ErrorTexts : response.body = StringifyMessage(e)
        ELSE /\ response.statusCode = 201
             /\ response.body =
                  StringifyMessage(<< "T", "i", "c", "k", "e", "t", "'", "s", " " >>
                                   \o ToStr(Get(decoded.rec, << "t", "i", "c", "k", "e", "t", "_", "i", "d" >>))
                                   \o << " ", "c", "u", "s", "t", "o", "m", " ", "f", "i", "e", "l", "d", "s", " ", "s", "e", "t" >>)

C6_Witness ==
  /\ pc = "done"
  /\ body = << "t", "i", "c", "k", "e", "t", "_", "i", "d", "=", "4", "2" >>
  /\ response.statusCode = 500

\* C7: the decoder does not throw for a well-formed body key1=value1&...
\* with percent-encoded values and maps each key to the percent-decoded
\* value; a malformed body surfaces as a decode failure and a 500.
C7_DecoderContract ==
  pc = "done" =>
    /\ WellFormedBody(body) =>
         DecodeBody(body).ok /\ MapsDecoded(body, DecodeBody(body).rec)
    /\ MisshapenBody(body) => response.statusCode = 500

\* C8: a failed outbound call, by transport error or by a non-2xx answer, is
\* logged exactly once inside sendToTrengo, never retried, and not reflected
\* in the response.
C8_FailureLoggedOnce ==
  OutboundFailed =>
    /\ Logged(logs, "Error when sending to Trengo") = 1
    /\ Len(requests) = 1
    /\ response.statusCode = 201

\* C9 as stated: decoding fails, and the handler answers 500, whenever a
\* value holds a '"', '&' or '=' after percent-decoding.
C9_DecodedSpecialFails ==
  pc = "done" /\ DecodesToSpecial(body) => response.statusCode = 500

\* The body has no raw double quote or backslash.
NoRawQuote(b) == \A k \in 1..Len(b) : b[k] \notin { "\"", "\\" }

\* C9 amended: a percent-encoded '"', '&' or '=' never makes decoding fail:
\* every well-formed body decodes, each key mapped to its percent-decoded
\* value; decoding fails with a parse error, and the handler answers 500,
\* when a body without raw '"' or '\' has a segment that does not hold
\* exactly one raw '='.
C9_RawSeparatorFails ==
  pc = "done" =>
    /\ WellFormedBody(body) =>
         /\ DecodeBody(body).ok
         /\ MapsDecoded(body, DecodeBody(body).rec)
         /\ Get(DecodeBody(body).rec, << "m", "e", "s", "s", "a", "g", "e" >>) # Undefined => response.statusCode = 201
    /\ body # Undefined /\ NoRawQuote(body) /\ MisshapenBody(body) =>
         /\ DecodeBody(body).err = SyntaxError
         /\ response.statusCode = 500
         /\ response.body = StringifyMessage(SyntaxError)

C9_Witness ==
  /\ pc = "done"
  /\ body = << "m", "e", "s", "s", "a", "g", "e", "=", "a", "%", "3", "D", "b", "&", "t", "i", "c", "k", "e", "t", "_", "i", "d", "=", "4", "2" >>
  /\ message = << "a", "=", "b" >>
  /\ response.statusCode = 201

\* C10: in an invocation that issues the POST the response is produced only
\* after the POST has settled: while it is pending the handler is suspended
\* without a response, and nothing but its settling lets the handler go on.
C10_ResponseAfterPost ==
  /\ fetch = "pending" => pc = "awaitFetch" /\ response = NoResponse
  /\ pc = "awaitFetch" => fetch = "pending"
  /\ Len(requests) > 0 /\ response # NoResponse => fetch \in { "resolved", "rejected" }

C10_Witness ==
  /\ pc = "done"
  /\ Len(requests) = 1
  /\ fetch = "resolved"
  /\ response.statusCode = 201

====
